---------------------------- MODULE Spec2Model ----------------------------
(***************************************************************************)
(* A model of the diamant data layer (src/db.js): the four relations kept  *)
(* by DiamantDB (tables, columns, rows, cells), its connection and schema, *)
(* the operations of DataTable, TableColumn, TableRow and CellData on      *)
(* them, and the JSON encoding of cell values at the store boundary.       *)
(*                                                                         *)
(* The store is SQLite as bundled by better-sqlite3 (src/db.js:1), which   *)
(* is compiled with SQLITE_DEFAULT_FOREIGN_KEYS=1: the FOREIGN KEY and     *)
(* ON DELETE CASCADE clauses of the schema are enforced on every           *)
(* connection although src/db.js issues no PRAGMA foreign_keys.            *)
(*                                                                         *)
(* Column fields type and options and the created_at stamps of tables,     *)
(* columns and rows are written once and read by no operation modelled     *)
(* here; they are left out of the records.                                 *)
(***************************************************************************)
EXTENDS Integers, Sequences, FiniteSets, TLC

(***************************************************************************)
(* JavaScript values.  Every value is a record of one shape, so that any   *)
(* two values can be compared: t is the type tag, b / n / s the payload of *)
(* a boolean / number / string (a string is its sequence of characters),   *)
(* kids the elements of an array (k unused) or the members of an object    *)
(* in insertion order (k the member's key).                                *)
(***************************************************************************)
JsNull == [t |-> "null", b |-> FALSE, n |-> 0, s |-> <<>>, kids |-> <<>>]
JsUndefined == [t |-> "undefined", b |-> FALSE, n |-> 0, s |-> <<>>, kids |-> <<>>]
JsBool(x) == [t |-> "bool", b |-> x, n |-> 0, s |-> <<>>, kids |-> <<>>]
JsNum(x) == [t |-> "num", b |-> FALSE, n |-> x, s |-> <<>>, kids |-> <<>>]
JsStr(x) == [t |-> "str", b |-> FALSE, n |-> 0, s |-> x, kids |-> <<>>]
JsArr(xs) ==
  [t |-> "arr", b |-> FALSE, n |-> 0, s |-> <<>>,
   kids |-> [i \in 1..Len(xs) |-> [k |-> <<>>, v |-> xs[i]]]]
JsObj(ms) == [t |-> "obj", b |-> FALSE, n |-> 0, s |-> <<>>, kids |-> ms]
Member(key, val) == [k |-> key, v |-> val]

(***************************************************************************)
(* JSON.stringify, as CellData.set calls it (src/db.js:369), on the values *)
(* above: the text is a sequence of characters.                            *)
(***************************************************************************)
DigitChars == <<"0", "1", "2", "3", "4", "5", "6", "7", "8", "9">>

RECURSIVE NatToChars(_)
NatToChars(x) ==
  IF x < 10 THEN <<DigitChars[x + 1]>>
  ELSE NatToChars(x \div 10) \o <<DigitChars[(x % 10) + 1]>>

NumToChars(x) == IF x < 0 THEN <<"-">> \o NatToChars(0 - x) ELSE NatToChars(x)

RECURSIVE EscapeChars(_)
EscapeChars(s) ==
  IF s = <<>> THEN <<>>
  ELSE (IF Head(s) \in {"\"", "\\"} THEN <<"\\", Head(s)>> ELSE <<Head(s)>>)
       \o EscapeChars(Tail(s))

QuoteChars(s) == <<"\"">> \o EscapeChars(s) \o <<"\"">>

RECURSIVE JSON_stringify(_)
RECURSIVE StringifyKids(_, _, _)
StringifyKids(kids, i, isObj) ==
  IF i > Len(kids) THEN <<>>
  ELSE (IF i > 1 THEN <<",">> ELSE <<>>)
       \o (IF isObj THEN QuoteChars(kids[i].k) \o <<":">> ELSE <<>>)
       \o (IF kids[i].v.t = "undefined" THEN <<"n", "u", "l", "l">>
           ELSE JSON_stringify(kids[i].v))
       \o StringifyKids(kids, i + 1, isObj)

JSON_stringify(v) ==
  CASE v.t = "null" -> <<"n", "u", "l", "l">>
    [] v.t = "bool" -> IF v.b THEN <<"t", "r", "u", "e">>
                       ELSE <<"f", "a", "l", "s", "e">>
    [] v.t = "num" -> NumToChars(v.n)
    [] v.t = "str" -> QuoteChars(v.s)
    [] v.t = "arr" -> <<"[">> \o StringifyKids(v.kids, 1, FALSE) \o <<"]">>
    [] v.t = "obj" ->
         <<"{">>
         \o StringifyKids(SelectSeq(v.kids, LAMBDA m : m.v.t # "undefined"), 1, TRUE)
         \o <<"}">>

(***************************************************************************)
(* JSON.parse, as CellData.set / get / getByRow call it (src/db.js:390,    *)
(* 407, 422), on the texts JSON.stringify writes: a recursive descent that *)
(* returns the value read and the index after it.                          *)
(***************************************************************************)
DigitValue(c) == CHOOSE d \in 0..9 : DigitChars[d + 1] = c

IsDigit(c) == \E d \in 1..10 : DigitChars[d] = c

RECURSIVE ParseDigits(_, _, _)
ParseDigits(text, i, acc) ==
  IF i <= Len(text) /\ IsDigit(text[i])
  THEN ParseDigits(text, i + 1, acc * 10 + DigitValue(text[i]))
  ELSE [v |-> acc, next |-> i]

RECURSIVE ParseChars(_, _, _)
ParseChars(text, i, acc) ==
  IF text[i] = "\"" THEN [v |-> acc, next |-> i + 1]
  ELSE IF text[i] = "\\" THEN ParseChars(text, i + 2, Append(acc, text[i + 1]))
  ELSE ParseChars(text, i + 1, Append(acc, text[i]))

RECURSIVE ParseValue(_, _)
RECURSIVE ParseElements(_, _, _)
RECURSIVE ParseMembers(_, _, _)
ParseElements(text, i, acc) ==
  LET e == ParseValue(text, i)
      got == Append(acc, e.v)
  IN IF text[e.next] = "," THEN ParseElements(text, e.next + 1, got)
     ELSE [v |-> JsArr(got), next |-> e.next + 1]

ParseMembers(text, i, acc) ==
  LET key == ParseChars(text, i + 1, <<>>)
      e == ParseValue(text, key.next + 1)
      got == Append(acc, Member(key.v, e.v))
  IN IF text[e.next] = "," THEN ParseMembers(text, e.next + 1, got)
     ELSE [v |-> JsObj(got), next |-> e.next + 1]

ParseValue(text, i) ==
  CASE text[i] = "n" -> [v |-> JsNull, next |-> i + 4]
    [] text[i] = "t" -> [v |-> JsBool(TRUE), next |-> i + 4]
    [] text[i] = "f" -> [v |-> JsBool(FALSE), next |-> i + 5]
    [] text[i] = "\"" ->
         LET str == ParseChars(text, i + 1, <<>>)
         IN [v |-> JsStr(str.v), next |-> str.next]
    [] text[i] = "-" ->
         LET num == ParseDigits(text, i + 1, 0)
         IN [v |-> JsNum(0 - num.v), next |-> num.next]
    [] text[i] = "[" ->
         IF text[i + 1] = "]" THEN [v |-> JsArr(<<>>), next |-> i + 2]
         ELSE ParseElements(text, i + 1, <<>>)
    [] text[i] = "{" ->
         IF text[i + 1] = "}" THEN [v |-> JsObj(<<>>), next |-> i + 2]
         ELSE ParseMembers(text, i + 1, <<>>)
    [] OTHER ->
         LET num == ParseDigits(text, i, 0)
         IN [v |-> JsNum(num.v), next |-> num.next]

JSON_parse(text) == ParseValue(text, 1).v


(***************************************************************************)
(* Bounds of the model and the inputs the operations are called with.      *)
(***************************************************************************)
MaxTables == 2
MaxColumns == 3
MaxRows == 3
MaxCalls == 6
MaxCellWrites == 2
MaxClock == 1

TableNames == {"Users"}
ColumnNames == {"Name", "_rowId", "__proto__"}
Positions == {0, 2}
Values == {JsNull, JsNum(0), JsStr(<<"a">>)}

(* The position argument of addRow: omitted (null) or an integer. *)
NoPosition == [isNull |-> TRUE, n |-> 0]
PositionArgs == {NoPosition} \cup {[isNull |-> FALSE, n |-> p] : p \in Positions}

(***************************************************************************)
(* The state: the four relations of the store, the AUTOINCREMENT counters  *)
(* SQLite keeps in sqlite_sequence, the wall clock read by new Date(), the *)
(* objects the operations have returned to the caller (of a cell, what     *)
(* identifies it), the outcome of the last call, the connection this.db    *)
(* of the DiamantDB (whether it is open, and the names in its schema), and *)
(* where each caller stands inside TableRow.create.                        *)
(***************************************************************************)
VARIABLES tables, columns, rows, cells, sqlite_sequence, now, held, ret, db, callers

vars == <<tables, columns, rows, cells, sqlite_sequence, now, held, ret, db, callers>>

(* The callers of the data layer that share the one connection. *)
Callers == {"A", "B"}

Idle == [pc |-> "idle", tableId |-> 0, position |-> 0]

(* The calls that wrote so far and the ticks of the clock: what a run of   *)
(* the caller is bounded by.                                               *)
Calls ==
  sqlite_sequence.tables + sqlite_sequence.columns + sqlite_sequence.rows
  + sqlite_sequence.cells + now

(* A TEXT column's content: NULL, or a text. *)
SqlNull == [isNull |-> TRUE, text |-> <<>>]
SqlText(chars) == [isNull |-> FALSE, text |-> chars]

(* JavaScript's truthiness of a column read back: NULL and '' are falsy. *)
Truthy(x) == ~x.isNull /\ x.text # <<>>

(***************************************************************************)
(* DiamantDB.init: db.exec of the CREATE TABLE IF NOT EXISTS and CREATE    *)
(* INDEX IF NOT EXISTS statements, in the order of the script.  The schema *)
(* is the sequence of names in sqlite_master.  A statement whose name is   *)
(* there already does nothing; exec stops at the first statement that      *)
(* fails.                                                                  *)
(***************************************************************************)
Statements ==
  <<"tables", "columns", "idx_columns_table_id", "rows", "idx_rows_table_id",
    "cells", "idx_cells_row_id", "idx_cells_column_id">>

InSchema(schema, name) == \E i \in 1..Len(schema) : schema[i] = name

(* CREATE without IF NOT EXISTS: an error when the name is taken. *)
CreatePlain(st, name) ==
  IF ~st.ok THEN st
  ELSE IF InSchema(st.schema, name) THEN [st EXCEPT !.ok = FALSE]
  ELSE [st EXCEPT !.schema = Append(@, name)]

CreateIfNotExists(st, name) ==
  IF ~st.ok \/ InSchema(st.schema, name) THEN st
  ELSE [st EXCEPT !.schema = Append(@, name)]

RECURSIVE Exec(_, _)
Exec(st, i) ==
  IF i > Len(Statements) THEN st
  ELSE Exec(CreateIfNotExists(st, Statements[i]), i + 1)

(* new DiamantDB(dbPath) on a new store: the connection is open, init has  *)
(* made the schema, every relation is empty.                               *)
Init ==
  /\ tables = {}
  /\ columns = {}
  /\ rows = {}
  /\ cells = {}
  /\ sqlite_sequence = [tables |-> 0, columns |-> 0, rows |-> 0, cells |-> 0]
  /\ now = 0
  /\ held = [tables |-> {}, columns |-> {}, rows |-> {}, cells |-> {}]
  /\ ret = [op |-> "init", ok |-> TRUE]
  /\ db = [open |-> TRUE, schema |-> Exec([schema |-> <<>>, ok |-> TRUE], 1).schema]
  /\ callers = [c \in Callers |-> Idle]

(***************************************************************************)
(* db.db.prepare and db.db.exec throw a TypeError on a closed connection;  *)
(* no operation catches it, so the call ends there with the store as it    *)
(* was.                                                                    *)
(***************************************************************************)
NotOpen(op) ==
  /\ ret' = [op |-> op, ok |-> FALSE,
             error |-> "TypeError: The database connection is not open"]
  /\ UNCHANGED <<tables, columns, rows, cells, sqlite_sequence, now, held, db, callers>>

(* The connection check left out: a statement runs whatever db.open is. *)
AlwaysOpen == TRUE

ConnectionOpen == db.open

(* INTEGER PRIMARY KEY without AUTOINCREMENT: one more than the largest    *)
(* rowid the relation holds now.                                           *)
MaxRowidPlusOne(relation, ids) ==
  IF ids = {} THEN 1 ELSE (CHOOSE m \in ids : \A i \in ids : i <= m) + 1

(***************************************************************************)
(* The rowid an INSERT gets in a relation declared INTEGER PRIMARY KEY     *)
(* AUTOINCREMENT: one more than the largest rowid the relation ever held,  *)
(* which SQLite keeps in sqlite_sequence.                                  *)
(***************************************************************************)
Autoincrement(relation, ids) == sqlite_sequence[relation] + 1


(***************************************************************************)
(* Whether the connection enforces foreign keys.  new Database(dbPath)     *)
(* opens the SQLite bundled with better-sqlite3, whose compile options set *)
(* SQLITE_DEFAULT_FOREIGN_KEYS=1, so enforcement is on from the start.     *)
(***************************************************************************)
ForeignKeysOff == FALSE

ForeignKeys == TRUE

(* The FOREIGN KEY clauses of the schema, as checked on an INSERT. *)
TableExists(tableId) == \E t \in tables : t.id = tableId
ColumnExists(columnId) == \E c \in columns : c.id = columnId
RowExists(rowId) == \E r \in rows : r.id = rowId

(* The insert of a row or a column under any table id, as by a schema      *)
(* whose table_id has no REFERENCES clause.                                *)
ParentTableAny(tableId) == TRUE

(* The insert of a cell under any row and column id, as by a schema whose  *)
(* row_id and column_id have no REFERENCES clause.                         *)
ParentsOfCellAny(rowId, columnId) == TRUE

ParentTableOk(tableId) == ForeignKeys => TableExists(tableId)
ParentsOfCellOk(rowId, columnId) ==
  ForeignKeys => RowExists(rowId) /\ ColumnExists(columnId)

(***************************************************************************)
(* DataTable.create: INSERT INTO tables; the new DataTable goes to the     *)
(* caller.                                                                 *)
(***************************************************************************)
DataTable_create(name) ==
  IF ~ConnectionOpen THEN NotOpen("DataTable.create")
  ELSE
  /\ sqlite_sequence.tables < MaxTables /\ Calls < MaxCalls
  /\ LET id == Autoincrement("tables", {t.id : t \in tables})
         table == [id |-> id, name |-> name]
     IN /\ tables' = tables \cup {table}
        /\ sqlite_sequence' = [sqlite_sequence EXCEPT !.tables = id]
        /\ held' = [held EXCEPT !.tables = @ \cup {table}]
        /\ ret' = [op |-> "DataTable.create", ok |-> TRUE, table |-> table]
  /\ UNCHANGED <<columns, rows, cells, now, db, callers>>

(* DataTable.get / TableColumn.get / TableRow.get: the set of rows found   *)
(* by id, empty for the null result.                                       *)
DataTable_get(id) == {t \in tables : t.id = id}
TableColumn_get(id) == {c \in columns : c.id = id}
TableRow_get(id) == {r \in rows : r.id = id}

(***************************************************************************)
(* TableColumn.create, reached through DataTable.addColumn with the        *)
(* DataTable's id: the INSERT fails on the foreign key when the table is   *)
(* gone, and the error goes to the caller.                                 *)
(***************************************************************************)
TableColumn_create(tableId, name) ==
  IF ~ConnectionOpen THEN NotOpen("TableColumn.create")
  ELSE
  /\ sqlite_sequence.columns < MaxColumns /\ Calls < MaxCalls
  /\ IF ParentTableOk(tableId)
     THEN LET id == Autoincrement("columns", {c.id : c \in columns})
              column == [id |-> id, table_id |-> tableId, name |-> name]
          IN /\ columns' = columns \cup {column}
             /\ sqlite_sequence' = [sqlite_sequence EXCEPT !.columns = id]
             /\ held' = [held EXCEPT !.columns = @ \cup {column}]
             /\ ret' = [op |-> "TableColumn.create", ok |-> TRUE, column |-> column]
     ELSE /\ ret' = [op |-> "TableColumn.create", ok |-> FALSE, tableId |-> tableId]
          /\ UNCHANGED <<columns, sqlite_sequence, held>>
  /\ UNCHANGED <<tables, rows, cells, now, db, callers>>

DataTable_addColumn(table, name) == TableColumn_create(table.id, name)

(***************************************************************************)
(* TableRow.create, reached through DataTable.addRow: a null position is   *)
(* replaced by the COUNT of the table's rows, then the row is inserted.   *)
(***************************************************************************)
CountRows(tableId) == Cardinality({r \in rows : r.table_id = tableId})

(* The COUNT without its WHERE clause. *)
CountAllRows(tableId) == Cardinality(rows)

DefaultPosition(tableId) == CountRows(tableId)

TableRow_create(tableId, position) ==
  IF ~ConnectionOpen THEN NotOpen("TableRow.create")
  ELSE
  /\ sqlite_sequence.rows < MaxRows /\ Calls < MaxCalls
  /\ LET pos == IF position.isNull THEN DefaultPosition(tableId) ELSE position.n
     IN IF ParentTableOk(tableId)
        THEN LET id == Autoincrement("rows", {r.id : r \in rows})
                 row == [id |-> id, table_id |-> tableId, position |-> pos]
             IN /\ rows' = rows \cup {row}
                /\ sqlite_sequence' = [sqlite_sequence EXCEPT !.rows = id]
                /\ held' = [held EXCEPT !.rows = @ \cup {row}]
                /\ ret' = [op |-> "TableRow.create", ok |-> TRUE, row |-> row,
                           position |-> position]
        ELSE /\ ret' = [op |-> "TableRow.create", ok |-> FALSE, tableId |-> tableId]
             /\ UNCHANGED <<rows, sqlite_sequence, held>>
  /\ UNCHANGED <<tables, columns, cells, now, db, callers>>

DataTable_addRow(table, position) == TableRow_create(table.id, position)

(***************************************************************************)
(* TableRow.getByTable: SELECT ... ORDER BY position.  SQL leaves the      *)
(* order of rows of equal position open, so the operation has a set of     *)
(* possible results: every arrangement of the table's rows that ascends by *)
(* position.                                                               *)
(***************************************************************************)
Arrangements(S) ==
  {f \in [1..Cardinality(S) -> S] : \A i, j \in 1..Cardinality(S) : i # j => f[i] # f[j]}

(* Rows in the order of their creation, as without the ORDER BY clause. *)
OrderedById(f) == \A i, j \in 1..Len(f) : i < j => f[i].id < f[j].id

OrderedByPosition(f) == \A i, j \in 1..Len(f) : i < j => f[i].position <= f[j].position

TableRow_getByTable(tableId) ==
  {f \in Arrangements({r \in rows : r.table_id = tableId}) : OrderedByPosition(f)}

DataTable_getRows(table) == TableRow_getByTable(table.id)

(***************************************************************************)
(* TableColumn.getByTable: SELECT without ORDER BY.  SQLite walks          *)
(* idx_columns_table_id (or the table itself), both in rowid order.        *)
(***************************************************************************)
(* The same SELECT with ORDER BY id DESC. *)
ColumnsNewestFirst(tableId) ==
  LET S == {c \in columns : c.table_id = tableId}
  IN CHOOSE f \in Arrangements(S) : \A i, j \in 1..Len(f) : i < j => f[i].id > f[j].id

TableColumn_getByTable(tableId) ==
  LET S == {c \in columns : c.table_id = tableId}
  IN CHOOSE f \in Arrangements(S) : \A i, j \in 1..Len(f) : i < j => f[i].id < f[j].id

DataTable_getColumns(table) == TableColumn_getByTable(table.id)

(***************************************************************************)
(* CellData: the encoding of a value on its way into the store and back.   *)
(***************************************************************************)
(* value ? JSON.stringify(value) : null, the test by truthiness. *)
EncodeIfTruthy(value) ==
  IF value \in {JsNull, JsUndefined, JsBool(FALSE), JsNum(0), JsStr(<<>>)}
  THEN SqlNull
  ELSE SqlText(JSON_stringify(value))

CellValueEncode(value) ==
  IF value.t # "null" /\ value.t # "undefined"
  THEN SqlText(JSON_stringify(value))
  ELSE SqlNull

CellValueDecode(stored) ==
  IF Truthy(stored) THEN JSON_parse(stored.text) ELSE JsNull

(* new CellData(db, data.id, data.row_id, data.column_id, decoded value). *)
CellObject(data) ==
  [id |-> data.id, rowId |-> data.row_id, columnId |-> data.column_id,
   value |-> CellValueDecode(data.value), updatedAt |-> data.updated_at]

SelectCells(rowId, columnId) ==
  {c \in cells : c.row_id = rowId /\ c.column_id = columnId}

(* CellData.get: the possible results; the empty set is the null result. *)
CellData_get(rowId, columnId) == {CellObject(c) : c \in SelectCells(rowId, columnId)}

TableRow_getCell(row, columnId) == CellData_get(row.id, columnId)

(* CellData.getByRow: the cells of a row, as a set (the result is unordered). *)
CellData_getByRow(rowId) == {CellObject(c) : c \in {d \in cells : d.row_id = rowId}}

(* A plain INSERT in place of the upsert, on a relation without the UNIQUE  *)
(* constraint.                                                             *)
InsertOnly(rowId, columnId, valueStr, updatedAt, newId) ==
  cells \cup {[id |-> newId, row_id |-> rowId, column_id |-> columnId,
               value |-> valueStr, updated_at |-> updatedAt]}

(***************************************************************************)
(* INSERT INTO cells ... ON CONFLICT(row_id, column_id) DO UPDATE: the     *)
(* cells relation after the statement.  A row of the pair is overwritten   *)
(* in place and keeps its id; otherwise a row with the new id is added.    *)
(***************************************************************************)
Upsert(rowId, columnId, valueStr, updatedAt, newId) ==
  IF SelectCells(rowId, columnId) # {}
  THEN {IF c \in SelectCells(rowId, columnId)
        THEN [c EXCEPT !.value = valueStr, !.updated_at = updatedAt]
        ELSE c : c \in cells}
  ELSE cells \cup {[id |-> newId, row_id |-> rowId, column_id |-> columnId,
                    value |-> valueStr, updated_at |-> updatedAt]}

(***************************************************************************)
(* CellData.set.  The statement fails on a foreign key when it would       *)
(* insert a cell of a missing row or column, and the error goes to the     *)
(* caller.  Otherwise SQLite draws a rowid from the AUTOINCREMENT counter  *)
(* before it meets the conflict, so the counter advances on an update      *)
(* too.  The cell is read back and returned.                               *)
(***************************************************************************)
CellData_set(rowId, columnId, value) ==
  IF ~ConnectionOpen THEN NotOpen("CellData.set")
  ELSE
  /\ sqlite_sequence.cells < MaxCellWrites /\ Calls < MaxCalls
  /\ IF SelectCells(rowId, columnId) # {} \/ ParentsOfCellOk(rowId, columnId)
     THEN LET newId == Autoincrement("cells", {c.id : c \in cells})
              after == Upsert(rowId, columnId, CellValueEncode(value), now, newId)
              data == CHOOSE c \in after : c.row_id = rowId /\ c.column_id = columnId
          IN /\ cells' = after
             /\ sqlite_sequence' = [sqlite_sequence EXCEPT !.cells = newId]
             /\ ret' = [op |-> "CellData.set", ok |-> TRUE, rowId |-> rowId,
                        columnId |-> columnId, value |-> value,
                        cell |-> CellObject(data)]
             /\ held' = [held EXCEPT !.cells = @ \cup
                           {[id |-> data.id, rowId |-> rowId, columnId |-> columnId]}]
     ELSE /\ ret' = [op |-> "CellData.set", ok |-> FALSE, rowId |-> rowId,
                     columnId |-> columnId, value |-> value]
          /\ UNCHANGED <<cells, sqlite_sequence, held>>
  /\ UNCHANGED <<tables, columns, rows, now, db, callers>>

TableRow_setCell(row, columnId, value) == CellData_set(row.id, columnId, value)

(***************************************************************************)
(* DataTable.delete: DELETE FROM tables WHERE id = ?, with the cascades of *)
(* the schema: the table's columns and rows go, and with them their cells. *)
(***************************************************************************)
NoCascadeRows(tableId) == rows

CascadeColumns(tableId) == {c \in columns : c.table_id # tableId}

CascadeRows(tableId) == {r \in rows : r.table_id # tableId}

CascadeCells(tableId) ==
  {c \in cells :
     /\ \A r \in rows : r.id = c.row_id => r \in CascadeRows(tableId)
     /\ \A col \in columns : col.id = c.column_id => col \in CascadeColumns(tableId)}

DataTable_delete(table) ==
  IF ~ConnectionOpen THEN NotOpen("DataTable.delete")
  ELSE
  /\ tables' = {t \in tables : t.id # table.id}
  /\ IF ForeignKeys /\ TableExists(table.id)
     THEN /\ columns' = CascadeColumns(table.id)
          /\ rows' = CascadeRows(table.id)
          /\ cells' = CascadeCells(table.id)
     ELSE UNCHANGED <<columns, rows, cells>>
  /\ ret' = [op |-> "DataTable.delete", ok |-> TRUE, tableId |-> table.id]
  /\ UNCHANGED <<sqlite_sequence, now, held, db, callers>>

(***************************************************************************)
(* DataTable.getData.  The record of a row is a JavaScript object: own,    *)
(* its own properties in insertion order, and proto, what its prototype    *)
(* is.  An assignment rowData[name] = value to the name "__proto__"        *)
(* reaches the accessor inherited from Object.prototype instead of making  *)
(* a property: it replaces the prototype when the value is null or an      *)
(* object and does nothing otherwise.                                      *)
(***************************************************************************)
HasOwn(obj, key) == \E i \in 1..Len(obj.own) : obj.own[i].k = key

OwnValue(obj, key) == obj.own[CHOOSE i \in 1..Len(obj.own) : obj.own[i].k = key].v

PutProperty(obj, key, value) ==
  IF HasOwn(obj, key)
  THEN [obj EXCEPT !.own = [i \in 1..Len(@) |->
                              IF @[i].k = key THEN Member(key, value) ELSE @[i]]]
  ELSE IF key = "__proto__" /\ obj.proto # "null"
  THEN IF value.t = "null" THEN [obj EXCEPT !.proto = "null"]
       ELSE IF value.t \in {"arr", "obj"} THEN [obj EXCEPT !.proto = "value"]
       ELSE obj
  ELSE [obj EXCEPT !.own = Append(@, Member(key, value))]

(* cell ? cell.value : null, for the cell CellData.get finds. *)
ProjectedValue(rowId, columnId) ==
  IF CellData_get(rowId, columnId) = {} THEN JsNull
  ELSE (CHOOSE cell \in CellData_get(rowId, columnId) : TRUE).value

RECURSIVE FillRowData(_, _, _, _)
FillRowData(obj, row, cols, i) ==
  IF i > Len(cols) THEN obj
  ELSE FillRowData(PutProperty(obj, cols[i].name, ProjectedValue(row.id, cols[i].id)),
                   row, cols, i + 1)

RowData(row, cols) ==
  FillRowData([own |-> <<Member("_rowId", JsNum(row.id)),
                         Member("_position", JsNum(row.position))>>,
               proto |-> "Object.prototype"],
              row, cols, 1)

(* The possible results of getData, one for each possible result of getRows. *)
DataTable_getData(table) ==
  {[i \in 1..Len(rs) |-> RowData(rs[i], DataTable_getColumns(table))] :
     rs \in DataTable_getRows(table)}

(* The clock read by new Date() moves on between calls. *)
Tick ==
  /\ now < MaxClock /\ Calls < MaxCalls
  /\ now' = now + 1
  /\ UNCHANGED <<tables, columns, rows, cells, sqlite_sequence, held, ret, db, callers>>

(***************************************************************************)
(* The caller: any operation, on any object it was handed so far (also one *)
(* whose table is deleted by now), with any column id it has seen.         *)
(***************************************************************************)
Next ==
  \/ \E name \in TableNames : DataTable_create(name)
  \/ \E table \in held.tables, name \in ColumnNames : DataTable_addColumn(table, name)
  \/ \E table \in held.tables, position \in PositionArgs : DataTable_addRow(table, position)
  \/ \E row \in held.rows, column \in held.columns, value \in Values :
       TableRow_setCell(row, column.id, value)
  \/ \E table \in held.tables : DataTable_delete(table)
  \/ Tick

Spec == Init /\ [][Next]_vars


(***************************************************************************)
(* What the claims speak of.                                               *)
(***************************************************************************)
(* The last call was a CellData.set that wrote. *)
SetDone == ret.op = "CellData.set" /\ ret.ok

(* The last call was a CellData.set that overwrote a cell stored earlier:  *)
(* an inserted cell carries the counter's value as its id.                 *)
SetOverwrote == SetDone /\ ret.cell.id < sqlite_sequence.cells

(* The tables the caller holds that were deleted. *)
DeletedTables == {t \in held.tables : ~TableExists(t.id)}

(* The value a record of getData shows under a column's name. *)
Shows(record, name, value) == HasOwn(record, name) /\ OwnValue(record, name) = value

(* C1: in every reachable state the cells relation holds at most one Cell  *)
(* for each (rowId, columnId) pair.                                        *)
C1_OneCellPerPair ==
  \A c1, c2 \in cells :
    c1.row_id = c2.row_id /\ c1.column_id = c2.column_id => c1 = c2

(* A second set on a pair has happened, with a value other than the one   *)
(* stored before it or not.                                                *)
C1_Witness == SetOverwrote /\ Cardinality(SelectCells(ret.rowId, ret.columnId)) = 1

(* C2: after setCell(c, v1) and then setCell(c, v2) on a row r, for a      *)
(* column c of r's table, exactly one Cell is stored for (r, c) and its    *)
(* value is v2 in the result of the second setCell, in getCell and in      *)
(* every result of getData.                                                *)
C2_UpsertShowsV2 ==
  SetOverwrote =>
    \A r \in rows, c \in columns :
      r.id = ret.rowId /\ c.id = ret.columnId /\ r.table_id = c.table_id =>
        /\ Cardinality(SelectCells(r.id, c.id)) = 1
        /\ ret.cell.value = ret.value
        /\ \A cell \in CellData_get(r.id, c.id) : cell.value = ret.value
        /\ Shows(RowData(r, TableColumn_getByTable(r.table_id)), c.name, ret.value)

(* C3: after DataTable.delete() of a table T, DataTable.get(T.id) finds    *)
(* nothing, and neither do TableColumn.get, TableRow.get, CellData.get and *)
(* CellData.getByRow for any column or row that was created under T.       *)
C3_DeletedTableUnretrievable ==
  \A t \in DeletedTables :
    /\ DataTable_get(t.id) = {}
    /\ \A c \in held.columns : c.table_id = t.id =>
         /\ TableColumn_get(c.id) = {}
         /\ \A r \in held.rows : CellData_get(r.id, c.id) = {}
    /\ \A r \in held.rows : r.table_id = t.id =>
         /\ TableRow_get(r.id) = {}
         /\ CellData_getByRow(r.id) = {}
         /\ \A c \in held.columns : CellData_get(r.id, c.id) = {}

(* A table with a column, a row and a cell was deleted, another remains. *)
C3_Witness ==
  /\ ret.op = "DataTable.delete"
  /\ \E t \in DeletedTables :
       /\ t.id = ret.tableId
       /\ \E c \in held.columns : c.table_id = t.id
       /\ \E r \in held.rows : r.table_id = t.id
  /\ sqlite_sequence.cells > 0 /\ cells = {}
  /\ tables # {}

(* C4: in every reachable state every Column's and every Row's tableId     *)
(* names an existing Table, and every Cell's rowId names an existing Row   *)
(* and its columnId an existing Column.                                    *)
C4_ReferentialIntegrity ==
  /\ \A c \in columns : TableExists(c.table_id)
  /\ \A r \in rows : TableExists(r.table_id)
  /\ \A c \in cells : RowExists(c.row_id) /\ ColumnExists(c.column_id)

(* A table that held a row was deleted while a cell of another survives. *)
C4_Witness ==
  /\ ret.op = "DataTable.delete"
  /\ \E t \in DeletedTables : \E r \in held.rows : r.table_id = t.id
  /\ cells # {}

(* C5: every result of getData() on a table holds one record per Row of    *)
(* the table, and each record has a field for every column name of the     *)
(* table.                                                                  *)
C5_RecordPerRowFieldPerName ==
  \A t \in tables : \A data \in DataTable_getData(t) :
    /\ Len(data) = CountRows(t.id)
    /\ \A i \in 1..Len(data) : \A c \in columns :
         c.table_id = t.id => HasOwn(data[i], c.name)

(* C6: every record of getData() carries the row's id in _rowId and the    *)
(* row's position in _position, whatever the columns are named.            *)
C6_RecordCarriesIdAndPosition ==
  \A t \in tables : \A r \in rows :
    r.table_id = t.id =>
      LET record == RowData(r, DataTable_getColumns(t))
      IN /\ Shows(record, "_rowId", JsNum(r.id))
         /\ Shows(record, "_position", JsNum(r.position))

(* C7: for a row r and a column c of one table, a Cell stored with value   *)
(* null (setCell(c, null)) shows as null under c in r's record of          *)
(* getData() and getCell returns it with value null; with no Cell stored   *)
(* (no set was made) getData() shows null too and getCell finds nothing.   *)
C7_NullAndMissingProjectToNull ==
  \A r \in rows, c \in columns :
    r.table_id = c.table_id =>
      LET record == RowData(r, TableColumn_getByTable(r.table_id))
          stored == SelectCells(r.id, c.id)
      IN /\ stored = {} =>
              Shows(record, c.name, JsNull) /\ TableRow_getCell(r, c.id) = {}
         /\ (\E cell \in stored : cell.value = SqlNull) =>
              /\ Shows(record, c.name, JsNull)
              /\ \E cell \in TableRow_getCell(r, c.id) : cell.value = JsNull

(* C8: for every table, whatever positions its rows were created with and  *)
(* in whatever order, every result of getRows() ascends by position and    *)
(* holds each row of the table exactly once (and there is a result).       *)
C8_GetRowsAscending ==
  \A t \in held.tables :
    /\ DataTable_getRows(t) # {}
    /\ \A f \in DataTable_getRows(t) :
         /\ \A i \in 1..(Len(f) - 1) : f[i].position <= f[i + 1].position
         /\ {f[i] : i \in 1..Len(f)} = {r \in rows : r.table_id = t.id}
         /\ Len(f) = CountRows(t.id)

(* Rows of one table were created against the order of their positions. *)
C8_Witness ==
  \E r1, r2 \in rows :
    /\ r1.table_id = r2.table_id
    /\ r1.id < r2.id /\ r1.position > r2.position
    /\ ret.op = "TableRow.create" /\ ret.ok /\ ~ret.position.isNull

(* The rows of a table hold positions 0, 1, ..., n-1 in creation order. *)
CountsUp(rowSet, tableId) ==
  \A r \in rowSet : r.table_id = tableId =>
    r.position = Cardinality({q \in rowSet : q.table_id = tableId /\ q.id < r.id})

(* C9: addRow() with no position gives the new row the number of rows the  *)
(* table held just before the call; so default addRow() calls on a table   *)
(* whose rows count up from 0 keep them counting up 0, 1, ..., n-1 in      *)
(* creation order, no two rows sharing a position.                         *)
C9_DefaultPositionIsCount ==
  [][(ret'.op = "TableRow.create" /\ ret'.ok /\ ret'.position.isNull /\ rows' # rows) =>
       /\ ret'.row.position = CountRows(ret'.row.table_id)
       /\ rows' = rows \cup {ret'.row}
       /\ CountsUp(rows, ret'.row.table_id) => CountsUp(rows', ret'.row.table_id)]_vars

(* Three default addRow() calls on one table gave positions 0, 1, 2. *)
C9_Witness ==
  /\ ret.op = "TableRow.create" /\ ret.ok /\ ret.position.isNull
  /\ ret.row.position = 2
  /\ CountsUp(rows, ret.row.table_id)

(***************************************************************************)
(* The round trip of a value through CellData.set and CellData.get, on a   *)
(* store that holds one table with two columns and one row.                *)
(***************************************************************************)
Chr(x) == <<x>>

RoundTripScalars ==
  {JsNull, JsBool(TRUE), JsBool(FALSE),
   JsNum(0), JsNum(1), JsNum(-1), JsNum(10), JsNum(-205),
   JsStr(<<>>), JsStr(<<"a">>), JsStr(<<"0">>), JsStr(<<"n", "u", "l", "l">>),
   JsStr(<<"\"">>), JsStr(<<"\\">>), JsStr(<<"a", "\"", "\\", ",">>),
   JsStr(<<"[", "]">>)}

RoundTripArrays ==
  {JsArr(<<>>)} \cup {JsArr(<<x>>) : x \in RoundTripScalars}
  \cup {JsArr(<<x, JsArr(<<y>>)>>) : x, y \in {JsNull, JsNum(0), JsStr(<<>>), JsBool(FALSE)}}

RoundTripObjects ==
  {JsObj(<<>>)}
  \cup {JsObj(<<Member(Chr("a"), x)>>) : x \in RoundTripScalars}
  \cup {JsObj(<<Member(Chr("a"), JsArr(<<x>>)), Member(<<"b", "\"">>, JsObj(<<Member(<<>>, y)>>))>>) :
          x, y \in {JsNull, JsNum(0), JsStr(<<>>), JsBool(FALSE)}}

RoundTripValues == RoundTripScalars \cup RoundTripArrays \cup RoundTripObjects

(* Deep equality of two values: arrays by elements, objects by members     *)
(* whatever their order.                                                   *)
RECURSIVE DeepEqual(_, _)
DeepEqual(x, y) ==
  /\ x.t = y.t /\ x.b = y.b /\ x.n = y.n /\ x.s = y.s
  /\ Len(x.kids) = Len(y.kids)
  /\ IF x.t = "obj"
     THEN \A i \in 1..Len(x.kids) : \E j \in 1..Len(y.kids) :
            x.kids[i].k = y.kids[j].k /\ DeepEqual(x.kids[i].v, y.kids[j].v)
     ELSE \A i \in 1..Len(x.kids) : DeepEqual(x.kids[i].v, y.kids[i].v)

InitRoundTrip ==
  LET table == [id |-> 1, name |-> "Users"]
      name == [id |-> 1, table_id |-> 1, name |-> "Name"]
      age == [id |-> 2, table_id |-> 1, name |-> "Age"]
      row == [id |-> 1, table_id |-> 1, position |-> 0]
  IN /\ tables = {table}
     /\ columns = {name, age}
     /\ rows = {row}
     /\ cells = {}
     /\ sqlite_sequence = [tables |-> 1, columns |-> 2, rows |-> 1, cells |-> 0]
     /\ now = 0
     /\ held = [tables |-> {table}, columns |-> {name, age}, rows |-> {row},
                cells |-> {}]
     /\ ret = [op |-> "TableRow.create", ok |-> TRUE, row |-> row, position |-> NoPosition]
     /\ db = [open |-> TRUE, schema |-> Statements]
     /\ callers = [c \in Callers |-> Idle]

NextRoundTrip ==
  \/ \E row \in held.rows, column \in held.columns, value \in RoundTripValues :
       TableRow_setCell(row, column.id, value)
  \/ Tick

SpecRoundTrip == InitRoundTrip /\ [][NextRoundTrip]_vars

(* C10: for every value v of RoundTripValues (strings with the empty       *)
(* string, integers with 0, booleans with false, null, nested arrays and   *)
(* objects), setCell(c, v) followed by getCell(c) on the same row returns  *)
(* a Cell whose value is deep-equal to v.                                  *)
C10_RoundTrip ==
  SetDone =>
    /\ CellData_get(ret.rowId, ret.columnId) # {}
    /\ \A cell \in CellData_get(ret.rowId, ret.columnId) : DeepEqual(cell.value, ret.value)

(* A nested object holding falsy values went through set and get, next to  *)
(* a cell holding false.                                                   *)
C10_Witness ==
  /\ SetDone
  /\ ret.value = JsObj(<<Member(Chr("a"), JsArr(<<JsNum(0)>>)),
                         Member(<<"b", "\"">>, JsObj(<<Member(<<>>, JsStr(<<>>))>>))>>)
  /\ \E c \in held.columns : c.id # ret.columnId /\
       \E cell \in CellData_get(ret.rowId, c.id) : cell.value = JsBool(FALSE)

(* C11: in any sequence of creates and table deletes, the id a create      *)
(* gives to a Table (Column, Row, Cell) differs from every id given        *)
(* earlier to an entity of the same kind, the deleted ones included.       *)
C11_IdsNeverReused ==
  [][/\ \A t \in tables' \ tables : \A h \in held.tables : h.id # t.id
     /\ \A c \in columns' \ columns : \A h \in held.columns : h.id # c.id
     /\ \A r \in rows' \ rows : \A h \in held.rows : h.id # r.id
     /\ \A c \in cells' :
          (\A d \in cells : d.id # c.id) => \A h \in held.cells : h.id # c.id]_vars

(* A table was created after the delete of an earlier one whose cell went  *)
(* with it.                                                                *)
C11_Witness ==
  /\ ret.op = "DataTable.create" /\ ret.ok
  /\ \E t \in DeletedTables : t.id < ret.table.id
  /\ held.cells # {} /\ cells = {}

(* C12: once the Cell of a pair (rowId, columnId) is gone (by the cascade  *)
(* of a delete, the one way a Cell goes), no operation brings a Cell of    *)
(* that pair back: not CellData.set with the old ids, not the creation of  *)
(* new tables, rows and columns.                                           *)
C12_RemovedCellStaysAbsent ==
  [][\A h \in held.cells :
       SelectCells(h.rowId, h.columnId) = {} =>
         {c \in cells' : c.row_id = h.rowId /\ c.column_id = h.columnId} = {}]_vars

(* CellData.set was called with the ids of a cell that went with its       *)
(* table, while another table exists.                                      *)
C12_Witness ==
  /\ ret.op = "CellData.set" /\ ~ret.ok
  /\ \E h \in held.cells : h.rowId = ret.rowId /\ h.columnId = ret.columnId
  /\ CellData_get(ret.rowId, ret.columnId) = {}
  /\ tables # {}

(* C13: addColumn or addRow on a table id that names no table, and         *)
(* CellData.set with a rowId or columnId that names no row or column, do   *)
(* not succeed; the call that fails leaves the tables, columns, rows and   *)
(* cells relations as they were.                                           *)
C13_MissingParentFails ==
  [][ret' # ret =>
       /\ (ret'.op = "TableColumn.create" /\ ret'.ok) => TableExists(ret'.column.table_id)
       /\ (ret'.op = "TableRow.create" /\ ret'.ok) => TableExists(ret'.row.table_id)
       /\ (ret'.op = "CellData.set" /\ ret'.ok) =>
            RowExists(ret'.rowId) /\ ColumnExists(ret'.columnId)
       /\ (ret'.op \in {"TableColumn.create", "TableRow.create", "CellData.set"}
             /\ ~ret'.ok) => UNCHANGED <<tables, columns, rows, cells>>]_vars

(* setCell on a row whose table was deleted, with a column that exists,    *)
(* failed.                                                                 *)
C13_Witness ==
  /\ ret.op = "CellData.set" /\ ~ret.ok
  /\ ~RowExists(ret.rowId) /\ ColumnExists(ret.columnId)

(***************************************************************************)
(* The life of the connection: DiamantDB.init run again, DiamantDB.close,  *)
(* and every operation of the data layer, the reading ones too, called     *)
(* before and after the close, on a store that holds one table with two   *)
(* columns and one row.                                                    *)
(***************************************************************************)
(* DataTable.getAll: SELECT * FROM tables, in rowid order. *)
DataTable_getAll ==
  CHOOSE f \in Arrangements(tables) : \A i, j \in 1..Len(f) : i < j => f[i].id < f[j].id

(* A reading operation: its statement is prepared, and the result goes to  *)
(* the caller.                                                             *)
Query(op, result) ==
  IF ~ConnectionOpen THEN NotOpen(op)
  ELSE /\ ret' = [op |-> op, ok |-> TRUE, result |-> result]
       /\ UNCHANGED <<tables, columns, rows, cells, sqlite_sequence, now, held, db, callers>>

(* DiamantDB.init called on the open connection of an initialized store. *)
DiamantDB_init ==
  IF ~ConnectionOpen THEN NotOpen("DiamantDB.init")
  ELSE LET st == Exec([schema |-> db.schema, ok |-> TRUE], 1)
       IN /\ db' = [db EXCEPT !.schema = st.schema]
          /\ ret' = [op |-> "DiamantDB.init", ok |-> st.ok]
          /\ UNCHANGED <<tables, columns, rows, cells, sqlite_sequence, now, held, callers>>

(* DiamantDB.close: this.db.close(), which does nothing on a closed        *)
(* connection.                                                             *)
DiamantDB_close ==
  /\ db' = [db EXCEPT !.open = FALSE]
  /\ ret' = [op |-> "DiamantDB.close", ok |-> TRUE]
  /\ UNCHANGED <<tables, columns, rows, cells, sqlite_sequence, now, held, callers>>

NextLifecycle ==
  \/ \E name \in TableNames : DataTable_create(name)
  \/ \E table \in held.tables, name \in ColumnNames : DataTable_addColumn(table, name)
  \/ \E table \in held.tables, position \in PositionArgs : DataTable_addRow(table, position)
  \/ \E row \in held.rows, column \in held.columns, value \in Values :
       TableRow_setCell(row, column.id, value)
  \/ \E table \in held.tables : DataTable_delete(table)
  \/ \E table \in held.tables : Query("DataTable.get", DataTable_get(table.id))
  \/ Query("DataTable.getAll", DataTable_getAll)
  \/ \E table \in held.tables : Query("DataTable.getColumns", DataTable_getColumns(table))
  \/ \E table \in held.tables : \E f \in DataTable_getRows(table) :
       Query("DataTable.getRows", f)
  \/ \E table \in held.tables : \E data \in DataTable_getData(table) :
       Query("DataTable.getData", data)
  \/ \E row \in held.rows, column \in held.columns :
       Query("TableRow.getCell", TableRow_getCell(row, column.id))
  \/ DiamantDB_init
  \/ DiamantDB_close
  \/ Tick

SpecLifecycle == InitRoundTrip /\ [][NextLifecycle]_vars

(* The operations of the data layer, by the name their outcome carries. *)
DataLayerOps ==
  {"DataTable.create", "DataTable.get", "DataTable.getAll", "TableColumn.create",
   "TableRow.create", "DataTable.getRows", "DataTable.getColumns", "DataTable.getData",
   "CellData.set", "TableRow.getCell", "DataTable.delete"}

(* C14: after DiamantDB.close() every call of create, get, getAll,         *)
(* addColumn, addRow, getRows, getColumns, getData, setCell, getCell and    *)
(* delete through the handle ends in an error: none returns a result, and  *)
(* the stored relations and counters stay as they were.                    *)
C14_ClosedHandleFails ==
  [][~db.open =>
       /\ UNCHANGED <<tables, columns, rows, cells, sqlite_sequence>>
       /\ ~db'.open
       /\ ret'.op \in DataLayerOps => ~ret'.ok]_vars

(* getData was called after the close, on a store that holds a cell. *)
C14_Witness ==
  /\ ~db.open
  /\ ret.op = "DataTable.getData" /\ ~ret.ok
  /\ cells # {}

(* C15: DiamantDB.init() run on an initialized store through the open      *)
(* connection raises no error, leaves the schema as it was, no name in it  *)
(* twice, and leaves every stored Table, Column, Row and Cell unchanged.   *)
C15_InitIdempotent ==
  [][(db.open /\ ret'.op = "DiamantDB.init") =>
       /\ ret'.ok
       /\ db'.schema = db.schema
       /\ \A i, j \in 1..Len(db'.schema) : db'.schema[i] = db'.schema[j] => i = j
       /\ \A name \in {"tables", "columns", "rows", "cells"} : InSchema(db'.schema, name)
       /\ UNCHANGED <<tables, columns, rows, cells>>]_vars

(* init ran on a store that holds a cell. *)
C15_Witness ==
  /\ ret.op = "DiamantDB.init" /\ ret.ok
  /\ db.open /\ cells # {}

(***************************************************************************)
(* The order of columns, on a store that holds two tables and a row of the *)
(* first: columns are added to either table, rows are added, cells are     *)
(* set, tables are deleted.                                                *)
(***************************************************************************)
InitColumns ==
  LET first == [id |-> 1, name |-> "Users"]
      second == [id |-> 2, name |-> "Users"]
      row == [id |-> 1, table_id |-> 1, position |-> 0]
  IN /\ tables = {first, second}
     /\ columns = {}
     /\ rows = {row}
     /\ cells = {}
     /\ sqlite_sequence = [tables |-> 2, columns |-> 0, rows |-> 1, cells |-> 0]
     /\ now = 0
     /\ held = [tables |-> {first, second}, columns |-> {}, rows |-> {row}, cells |-> {}]
     /\ ret = [op |-> "TableRow.create", ok |-> TRUE, row |-> row, position |-> NoPosition]
     /\ db = [open |-> TRUE, schema |-> Statements]
     /\ callers = [c \in Callers |-> Idle]

NextColumns ==
  \/ \E table \in held.tables, name \in ColumnNames : DataTable_addColumn(table, name)
  \/ \E table \in held.tables, position \in PositionArgs : DataTable_addRow(table, position)
  \/ \E row \in held.rows, column \in held.columns, value \in Values :
       TableRow_setCell(row, column.id, value)
  \/ \E table \in held.tables : DataTable_delete(table)

SpecColumns == InitColumns /\ [][NextColumns]_vars

(* Where a record holds the property of a name. *)
KeyIndex(obj, key) == CHOOSE i \in 1..Len(obj.own) : obj.own[i].k = key

(* The names getData itself gives a record, and the name of the accessor. *)
ReservedNames == {"_rowId", "_position", "__proto__"}

(* getColumns() of a table holds the columns of the table, each once. *)
ColumnsListed ==
  \A t \in held.tables :
    LET cols == DataTable_getColumns(t)
    IN /\ {cols[i] : i \in 1..Len(cols)} = {c \in columns : c.table_id = t.id}
       /\ Len(cols) = Cardinality({c \in columns : c.table_id = t.id})

(* A record of getData() is filled in the order of getColumns(): the names *)
(* the columns add come in the order of the first column of each name, and *)
(* a name borne by several columns shows the cell of the last of them.     *)
FilledInColumnOrder ==
  \A t \in tables : \A r \in rows :
    r.table_id = t.id =>
      LET cols == DataTable_getColumns(t)
          record == RowData(r, cols)
          First(i) == \A k \in 1..(i - 1) : cols[k].name # cols[i].name
          Last(i) == \A k \in (i + 1)..Len(cols) : cols[k].name # cols[i].name
      IN \A i \in 1..Len(cols) :
           cols[i].name \notin ReservedNames =>
             /\ Last(i) => Shows(record, cols[i].name, ProjectedValue(r.id, cols[i].id))
             /\ \A j \in (i + 1)..Len(cols) :
                  (First(i) /\ First(j) /\ cols[j].name \notin ReservedNames) =>
                    KeyIndex(record, cols[i].name) < KeyIndex(record, cols[j].name)

(* addColumn puts the new column at the end of getColumns() of its table   *)
(* and leaves getColumns() of every other table as it was.                 *)
ColumnAppended ==
  \A c \in columns' \ columns :
    /\ TableColumn_getByTable(c.table_id)' = Append(TableColumn_getByTable(c.table_id), c)
    /\ \A t \in tables : t.id # c.table_id =>
         TableColumn_getByTable(t.id)' = TableColumn_getByTable(t.id)

C17_UpdatedAtAdvances ==
  [][(ret' # ret /\ ret'.op = "CellData.set" /\ ret'.ok) =>
       \A c \in SelectCells(ret'.rowId, ret'.columnId) :
         /\ ret'.cell.updatedAt > c.updated_at
         /\ \A d \in cells' : d.id = c.id => d.updated_at > c.updated_at]_vars

(* C18: right after addRow() with no position, the new row is the last     *)
(* element of every result of getRows() of its table, whatever rows the    *)
(* table held.                                                             *)
C18_DefaultRowIsLast ==
  (ret.op = "TableRow.create" /\ ret.ok /\ ret.position.isNull /\ ret.row \in rows) =>
    \A f \in TableRow_getByTable(ret.row.table_id) : f[Len(f)] = ret.row

(* C20: in every reachable state the Row and the Column of each stored     *)
(* Cell belong to one Table.                                               *)
C20_CellWithinOneTable ==
  \A c \in cells : \A r \in rows, col \in columns :
    (r.id = c.row_id /\ col.id = c.column_id) => r.table_id = col.table_id

(***************************************************************************)
(* Two callers of addRow() on the one connection, with TableRow.create     *)
(* taken statement by statement: the call is entered, SELECT COUNT is run, *)
(* INSERT is run and the call returns.  TableRow.create is a synchronous   *)
(* function over better-sqlite3's synchronous statements, with no await    *)
(* in it: once entered it runs to its return before any other code of the  *)
(* process runs.                                                           *)
(***************************************************************************)
InCall == {c \in Callers : callers[c].pc # "idle"}

CallStackEmpty == InCall = {}

(* A call that could be suspended between its statements. *)
AnyTime(c) == TRUE

(* The caller may run: no other caller is inside a call. *)
RunsToCompletion(c) == InCall \subseteq {c}

(* addRow() with no position is called: TableRow.create is entered. *)
EnterCreate(c, table) ==
  /\ callers[c].pc = "idle" /\ RunsToCompletion(c)
  /\ sqlite_sequence.rows + Cardinality(InCall) < MaxRows
  /\ Calls + Cardinality(InCall) < MaxCalls
  /\ callers' = [callers EXCEPT ![c] = [pc |-> "count", tableId |-> table.id, position |-> 0]]
  /\ UNCHANGED <<tables, columns, rows, cells, sqlite_sequence, now, held, ret, db>>

(* position = result.count, of SELECT COUNT ... WHERE table_id = ?. *)
SelectCount(c) ==
  /\ callers[c].pc = "count" /\ RunsToCompletion(c)
  /\ callers' = [callers EXCEPT ![c].pc = "insert",
                                ![c].position = DefaultPosition(callers[c].tableId)]
  /\ UNCHANGED <<tables, columns, rows, cells, sqlite_sequence, now, held, ret, db>>

(* INSERT INTO rows with the position read, and the return of the row. *)
InsertRow(c) ==
  /\ callers[c].pc = "insert" /\ RunsToCompletion(c)
  /\ callers' = [callers EXCEPT ![c].pc = "idle"]
  /\ LET tableId == callers[c].tableId
     IN IF ParentTableOk(tableId)
        THEN LET id == Autoincrement("rows", {r.id : r \in rows})
                 row == [id |-> id, table_id |-> tableId, position |-> callers[c].position]
             IN /\ rows' = rows \cup {row}
                /\ sqlite_sequence' = [sqlite_sequence EXCEPT !.rows = id]
                /\ held' = [held EXCEPT !.rows = @ \cup {row}]
                /\ ret' = [op |-> "TableRow.create", ok |-> TRUE, row |-> row,
                           position |-> NoPosition]
        ELSE /\ ret' = [op |-> "TableRow.create", ok |-> FALSE, tableId |-> tableId]
             /\ UNCHANGED <<rows, sqlite_sequence, held>>
  /\ UNCHANGED <<tables, columns, cells, now, db>>

NextTwoCallers ==
  \/ \E name \in TableNames : CallStackEmpty /\ DataTable_create(name)
  \/ \E c \in Callers, table \in held.tables : EnterCreate(c, table)
  \/ \E c \in Callers : SelectCount(c)
  \/ \E c \in Callers : InsertRow(c)
  \/ \E table \in held.tables : CallStackEmpty /\ DataTable_delete(table)

SpecTwoCallers == Init /\ [][NextTwoCallers]_vars

=============================================================================
